---- MODULE Spec2Model ----
(***************************************************************************)
(* A model of lib/handlers/targetHandler.js of taiko: the target registry, *)
(* the identifier matchers, target discovery, the browser context manager  *)
(* and the session bootstrap, together with the process-wide state they    *)
(* share and the transport (browser) they talk to.                         *)
(*                                                                         *)
(* JavaScript values are modelled as strings; undefined, null, true and    *)
(* false are the sentinels below, which no id, name or url equals.         *)
(***************************************************************************)
EXTENDS Naturals, Integers, Sequences, FiniteSets, TLC

VARIABLES
  criTarget,               \* targetHandler.js:10  Target-domain handle (a client)
  browserDebugUrlTarget,   \* targetHandler.js:10  browser-debug-URL handle
  activeBrowserContextId,  \* targetHandler.js:10
  activeTargetId,          \* targetHandler.js:10
  targetRegistry,          \* targetHandler.js:11  the Map name -> target id
  browser,                 \* the remote browser: its targets and contexts
  boot,                    \* one createdSessionListener activation per session
  clients,                 \* per client: discovery requested, handlers registered
  notif,                   \* the last Target.targetCreated notification delivered
  call,                    \* the browser-context-manager call in flight
  waitCall,                \* the waitForTargetToBeCreated call in flight
  criCall,                 \* the getCriTargets call in flight
  regCall,                 \* the last registry call and what it returned
  written                  \* per name: the ids last passed to register(name, id)

vars == << criTarget, browserDebugUrlTarget, activeBrowserContextId, activeTargetId,
           targetRegistry, browser, boot, clients, notif, call, waitCall, criCall,
           regCall, written >>

sessionVars == << criTarget, browserDebugUrlTarget, activeBrowserContextId,
                  activeTargetId >>

-----------------------------------------------------------------------------
(* JavaScript values *)

Undefined == "<undefined>"
Null == "<null>"
True == "<true>"
False == "<false>"

\* ToBoolean of a value: undefined, null, false and the empty string are falsy.
Truthy(v) == v \notin {Undefined, Null, False, ""}

Bool(b) == IF b THEN True ELSE False

\* String.prototype.includes
Includes(s, m) ==
  \E i \in 1..(Len(s) - Len(m) + 1) : SubSeq(s, i, i + Len(m) - 1) = m

-----------------------------------------------------------------------------
(* Map: get, set, delete, clear *)

EmptyMap == [k \in {} |-> Undefined]

MapGet(m, k) == IF k \in DOMAIN m THEN m[k] ELSE Undefined

MapSet(m, k, v) == [x \in (DOMAIN m) \cup {k} |-> IF x = k THEN v ELSE m[x]]

MapDelete(m, k) == [x \in (DOMAIN m) \ {k} |-> m[x]]

-----------------------------------------------------------------------------
(* 4.2 Target registry *)

\* The names and ids the registry calls are made with; both hold the empty
\* string, which the guard of register treats as an argument that is absent.
Names == {"", "tab1", "tab2"}
Ids == {"", "T1", "T2"}

\* register(name, target) on the registry reg: the registry afterwards and the
\* value returned.  register(name) is register(name, Undefined).
register(reg, name, target) ==
  IF Truthy(name) /\ Truthy(target)
    THEN [reg |-> MapSet(reg, name, target), ret |-> Undefined]
    ELSE [reg |-> reg, ret |-> MapGet(reg, name)]

\* unregister that forgets every entry.
unregisterDropsAll(reg, name) == EmptyMap

unregister(reg, name) == MapDelete(reg, name)

clearRegister(reg) == EmptyMap

\* isMatchingTarget that answers the stored id without comparing it.
isMatchingTargetAnyRegistered(reg, targetId, name) ==
  register(reg, name, Undefined).ret

\* isMatchingTarget(target, identifier) for a target with id targetId and an
\* identifier whose name property is name: `storedTarget && storedTarget === id`.
isMatchingTarget(reg, targetId, name) ==
  LET storedTarget == register(reg, name, Undefined).ret
  IN  IF Truthy(storedTarget) THEN Bool(storedTarget = targetId) ELSE storedTarget

NoRegCall == [op |-> "none", name |-> Undefined, target |-> Undefined,
              ret |-> Undefined, before |-> EmptyMap]

\* What the calls so far passed for each name: `passed` is the id of the last
\* register(name, id) call made with two arguments, `kept` that of the last such
\* call whose name and id were both non-empty; unregister and clearRegister
\* reset both.
NothingWritten == [n \in Names |-> [passed |-> Undefined, kept |-> Undefined]]

registryFrame == << sessionVars, browser, boot, clients, notif, call,
                    waitCall, criCall >>

\* register(name, target), or register(name) when target is undefined.
Register(name, target) ==
  LET r == register(targetRegistry, name, target) IN
  /\ targetRegistry' = r.reg
  /\ regCall' = [op |-> "register", name |-> name, target |-> target,
                 ret |-> r.ret, before |-> targetRegistry]
  /\ written' = IF target = Undefined THEN written
                ELSE [written EXCEPT
                        ![name].passed = target,
                        ![name].kept = IF name # "" /\ target # "" THEN target ELSE @]
  /\ UNCHANGED registryFrame

Unregister(name) ==
  /\ targetRegistry' = unregister(targetRegistry, name)
  /\ regCall' = [op |-> "unregister", name |-> name, target |-> Undefined,
                 ret |-> Undefined, before |-> targetRegistry]
  /\ written' = [written EXCEPT ![name] = [passed |-> Undefined, kept |-> Undefined]]
  /\ UNCHANGED registryFrame

ClearRegister ==
  /\ targetRegistry' = clearRegister(targetRegistry)
  /\ regCall' = [op |-> "clearRegister", name |-> Undefined, target |-> Undefined,
                 ret |-> Undefined, before |-> targetRegistry]
  /\ written' = NothingWritten
  /\ UNCHANGED registryFrame

\* isMatchingTarget(target, identifier) with target.id = targetId and
\* identifier.name = name.
IsMatchingTarget(targetId, name) ==
  /\ regCall' = [op |-> "isMatchingTarget", name |-> name, target |-> targetId,
                 ret |-> isMatchingTarget(targetRegistry, targetId, name),
                 before |-> targetRegistry]
  /\ UNCHANGED << targetRegistry, written >>
  /\ UNCHANGED registryFrame

-----------------------------------------------------------------------------
(* Strings: what url.parse, path.join and the helpers compute *)

\* The least index at which m occurs in s, 0 when it does not.
IndexOf(s, m) ==
  IF Includes(s, m)
    THEN CHOOSE i \in 1..(Len(s) - Len(m) + 1) :
           /\ SubSeq(s, i, i + Len(m) - 1) = m
           /\ \A j \in 1..(i - 1) : SubSeq(s, j, j + Len(m) - 1) # m
    ELSE 0

Tail1(s) == SubSeq(s, 2, Len(s))

\* url.parse(s, true) of node, for urls without auth, port, query or hash:
\* "proto://host/path", "proto:rest" and strings without a protocol.  The parts
\* that are absent are null; a slashed url without a path gets the path "/".

\* The url "proto//host path" whose host and path are known.
urlSlashed(proto, host, path) ==
  [protocol |-> proto, host |-> IF host = "" THEN Null ELSE host,
   pathname |-> path, href |-> proto \o "//" \o host \o path]

\* The url "proto//auth": auth is cut at its first "/", found at p (0: none).
urlAuthority(proto, auth, p) ==
  urlSlashed(proto,
             IF p = 0 THEN auth ELSE SubSeq(auth, 1, p - 1),
             IF p = 0 THEN "/" ELSE SubSeq(auth, p, Len(auth)))

\* The url s = proto \o rest, proto ending with its ":".
urlWithProtocol(s, proto, rest) ==
  IF SubSeq(rest, 1, 2) = "//"
    THEN urlAuthority(proto, SubSeq(rest, 3, Len(rest)),
                      IndexOf(SubSeq(rest, 3, Len(rest)), "/"))
    ELSE [protocol |-> proto, host |-> Null,
          pathname |-> IF rest = "" THEN Null ELSE rest, href |-> s]

\* The url s whose first ":" is at c and first "/" at sl (0: none): it has a
\* protocol when the ":" is not its first character and precedes every "/".
urlSplit(s, c, sl) ==
  IF c > 1 /\ (sl = 0 \/ c < sl)
    THEN urlWithProtocol(s, SubSeq(s, 1, c), SubSeq(s, c + 1, Len(s)))
    ELSE [protocol |-> Null, host |-> Null,
          pathname |-> IF s = "" THEN Null ELSE s, href |-> s]

urlParse(s) == urlSplit(s, IndexOf(s, ":"), IndexOf(s, "/"))

\* path.normalize on the joined string: runs of "/" collapse into one.
RECURSIVE collapseSlashes(_)
collapseSlashes(s) ==
  IF Len(s) < 2 THEN s
  ELSE IF SubSeq(s, 1, 2) = "//" THEN collapseSlashes(Tail1(s))
  ELSE SubSeq(s, 1, 1) \o collapseSlashes(Tail1(s))

\* path.join(a, b) of node (posix) on two strings without "." segments: the
\* non-empty arguments joined by "/" and normalized; "." when both are empty.
pathJoin(a, b) ==
  LET joined == IF a = "" THEN b ELSE IF b = "" THEN a ELSE a \o "/" \o b
  IN  IF joined = "" THEN "." ELSE collapseSlashes(joined)

\* trimCharLeft(s, char): s without its leading run of char.
RECURSIVE trimCharLeft(_, _)
trimCharLeft(s, char) ==
  IF Len(s) > 0 /\ SubSeq(s, 1, 1) = char THEN trimCharLeft(Tail1(s), char) ELSE s

\* escapeHtml(s): the five characters of HTML replaced by their entities.
RECURSIVE escapeHtml(_)
escapeHtml(s) ==
  IF s = "" THEN ""
  ELSE LET ch == SubSeq(s, 1, 1)
           e == CASE ch = "&" -> "&amp;"
                  [] ch = "<" -> "&lt;"
                  [] ch = ">" -> "&gt;"
                  [] ch = "'" -> "&#39;"
                  [] ch = "\"" -> "&quot;"
                  [] OTHER -> ch
       IN  e \o escapeHtml(Tail1(s))

-----------------------------------------------------------------------------
(* 4.1 Identifier matcher *)

\* The outcome of an evaluation that raised a TypeError.
Threw == "<TypeError>"

\* An identifier: absent, a string, a regular expression (one that matches the
\* strings containing its source) or an object with a name property.
NoIdentifier == [kind |-> "undefined", str |-> Undefined, name |-> Undefined]
StringId(s) == [kind |-> "string", str |-> s, name |-> Undefined]
RegexId(s) == [kind |-> "regex", str |-> s, name |-> Undefined]
NameId(n) == [kind |-> "object", str |-> Undefined, name |-> n]

isString(identifier) == identifier.kind = "string"
isRegex(identifier) == identifier.kind = "regex"

\* `!identifier`
IdentifierFalsy(identifier) ==
  \/ identifier.kind = "undefined"
  \/ identifier.kind = "string" /\ identifier.str = ""

\* s.match(regex): the match (truthy) or null.
Match(s, regex) == IF Includes(s, regex.str) THEN True ELSE Null

\* a || b || ... over a sequence of values: the first truthy one, else the last.
RECURSIVE OrJS(_)
OrJS(vals) ==
  IF Len(vals) = 1 \/ Truthy(Head(vals)) THEN Head(vals) ELSE OrJS(Tail(vals))

\* isMatchingRegex(target, targetRegex).  A null pathname raises in line 49
\* (trimCharLeft or path.join of a non-string), a null protocol in line 50.
isMatchingRegex(target, targetRegex) ==
  IF ~isRegex(targetRegex) THEN False
  ELSE LET parsedUrl == urlParse(target.url)
           host == IF Truthy(parsedUrl.host) THEN parsedUrl.host ELSE ""
       IN  IF parsedUrl.pathname = Null \/ parsedUrl.protocol = Null THEN Threw
           ELSE LET urlPath == pathJoin(host, trimCharLeft(parsedUrl.pathname, "/"))
                    urlHrefPath == parsedUrl.protocol \o "//" \o trimCharLeft(host, "/")
                IN  OrJS(<< Match(target.title, targetRegex),
                            Match(urlPath, targetRegex),
                            Match(parsedUrl.href, targetRegex),
                            Match(urlHrefPath, targetRegex) >>)

prependHttp(targetUrl) ==
  IF Truthy(targetUrl) /\ urlParse(targetUrl).host = Null
    THEN "http://" \o targetUrl
    ELSE targetUrl

\* isMatchingUrl(target, identifier).  The rewrite of target.url in line 85
\* comes after the url was parsed and is read by no matcher.
isMatchingUrl(target, identifier) ==
  IF ~isString(identifier) THEN False
  ELSE LET id == prependHttp(identifier.str)
           parsedUrl == urlParse(target.url)
           parsedTargetUrl == urlParse(id)
           host == IF Truthy(parsedUrl.host) THEN parsedUrl.host ELSE ""
           targetHost == IF Truthy(parsedTargetUrl.host) THEN parsedTargetUrl.host ELSE ""
           pathname == IF Truthy(parsedUrl.pathname) THEN parsedUrl.pathname ELSE ""
           targetPathname == IF Truthy(parsedTargetUrl.pathname)
                               THEN parsedTargetUrl.pathname ELSE ""
           urlPath == pathJoin(host, pathname)
           identifierPath == pathJoin(targetHost, targetPathname)
       IN  OrJS(<< Bool(target.title = escapeHtml(id)),
                   Bool(urlPath = OrJS(<< identifierPath, id >>)),
                   Bool(parsedUrl.href = id) >>)

\* isMatchingUrl(t, i) || isMatchingRegex(t, i) || isMatchingTarget(t, i) of
\* lines 200-202: the value of the chain, or Threw when a matcher it reaches raises.
matches(reg, target, identifier) ==
  LET u == isMatchingUrl(target, identifier) IN
  IF Truthy(u) THEN u
  ELSE LET r == isMatchingRegex(target, identifier) IN
       IF r = Threw THEN Threw
       ELSE IF Truthy(r) THEN r
       ELSE isMatchingTarget(reg, target.id, identifier.name)

-----------------------------------------------------------------------------
(* The calls in flight *)

NoError == [kind |-> "none", response |-> FALSE, message |-> Undefined]

\* Reading a property of undefined (a handle that no bootstrap has set yet).
TypeError == [kind |-> "TypeError", response |-> FALSE, message |-> Undefined]

\* The call in flight: the operation, the request it awaits (pc), its argument,
\* the local browserContextId, the requests it has issued, the errors its
\* Target.createTarget requests were rejected with, the target id the transport
\* last reported, and how it ended.
IdleCall == [op |-> "none", pc |-> "idle", arg |-> Undefined, ctx |-> Undefined,
             value |-> Undefined, error |-> NoError, sent |-> << >>,
             errors |-> << >>, reported |-> Undefined]

IdleWait == [pc |-> "idle", n0 |-> 0, n |-> 0, queries |-> 0, delays |-> 0,
             value |-> Undefined, error |-> Undefined, list |-> << >>,
             sawPage |-> FALSE, sawReject |-> FALSE]

IdleCri == [pc |-> "idle", identifier |-> NoIdentifier, list |-> << >>,
            matching |-> << >>, others |-> << >>, error |-> Undefined]

\* The last notification: the client, the event, defaultConfig.firefox as the
\* handlers read it, the number of handlers that ran and the payloads they
\* emitted on the event bus as 'targetCreated'.
NoNotif == [client |-> Undefined, target |-> Undefined, firefox |-> FALSE,
            handlers |-> 0, emitted |-> << >>]

\* No exported operation is in flight: the caller sequences its calls.
NoCallPending ==
  /\ call.pc \in {"idle", "returned", "threw"}
  /\ waitCall.pc \in {"idle", "returned", "threw"}
  /\ criCall.pc \in {"idle", "returned", "threw"}

-----------------------------------------------------------------------------
(* 4.4 Target discovery *)

MaxListLen == 3
MaxAttempts == 3

\* The targets the transport's list is drawn from: pages with a url, a page
\* without one (a tab that has not navigated yet) and a target that is no page.
TargetPool ==
  { [id |-> "T1", type |-> "page", url |-> "http://example.com/",
     title |-> "Example Domain"],
    [id |-> "T2", type |-> "page", url |-> "", title |-> "New Tab"],
    [id |-> "T3", type |-> "service_worker", url |-> "http://example.com/sw.js",
     title |-> "worker"],
    [id |-> "T4", type |-> "page", url |-> "https://other.org/a",
     title |-> "http://A&amp;B"] }

\* The lists cri.List can answer with: targets of the pool, each at most once.
TargetLists ==
  UNION { { l \in [1..k -> TargetPool] : \A i, j \in 1..k : l[i] = l[j] => i = j }
          : k \in 0..MaxListLen }

\* The errors cri.List can reject with.
ListErrors == { "connect ECONNREFUSED" }

NoTargetsYet == "No targets created yet!"

Identifiers ==
  { NoIdentifier, StringId(""), StringId("example.com"),
    StringId("https://other.org/a"), StringId("http://A&B"), RegexId("Example"),
    RegexId("other"), NameId("tab1"), NameId("tab2"), NameId(Undefined) }

isPage(t) == t.type = "page"

\* browserTargets.find(pred) that answers the first element whatever it is.
findIgnoresPredicate(list) == IF Len(list) = 0 THEN Undefined ELSE list[1].id

\* browserTargets.find((t) => t.type === 'page'): the id of the first page of
\* the list, undefined when it has none.
findPage(list) ==
  IF \E i \in 1..Len(list) : isPage(list[i])
    THEN list[CHOOSE i \in 1..Len(list) :
                /\ isPage(list[i])
                /\ \A j \in 1..(i - 1) : ~isPage(list[j])].id
    ELSE Undefined

\* The catch block that gives up one attempt early.
waitCatchOffByOne(w, err) ==
  IF w.n < 3
    THEN [w EXCEPT !.pc = "threw", !.error = err]
    ELSE [w EXCEPT !.pc = "sleep", !.delays = @ + 1]

\* The catch block of lines 174-182 on the frame w: rethrow when n < 2, else
\* start the 100 ms timer.
waitCatch(w, err) ==
  IF w.n < 2
    THEN [w EXCEPT !.pc = "threw", !.error = err]
    ELSE [w EXCEPT !.pc = "sleep", !.delays = @ + 1]

\* The try block of lines 162-173 on the answer of cri.List.
waitTry(w, list) ==
  LET w1 == [w EXCEPT !.list = list,
                      !.sawPage = @ \/ \E i \in 1..Len(list) : isPage(list[i])]
      target == findPage(list)
  IN  IF Len(list) = 0 THEN waitCatch(w1, NoTargetsYet)
      ELSE IF ~Truthy(target) THEN waitCatch(w1, NoTargetsYet)
      ELSE [w1 EXCEPT !.pc = "returned", !.value = target]

\* waitForTargetToBeCreated(n) is called: cri.List is asked.
CallWaitForTargetToBeCreated(n) ==
  /\ NoCallPending
  /\ waitCall' = [IdleWait EXCEPT !.pc = "list", !.n0 = n, !.n = n, !.queries = 1]
  /\ criCall' = IdleCri
  /\ call' = IdleCall
  /\ UNCHANGED << sessionVars, targetRegistry, browser, boot, clients,
                  notif, regCall, written >>

\* cri.List answers with a list.
WaitListReturns(list) ==
  /\ waitCall.pc = "list"
  /\ waitCall' = waitTry(waitCall, list)
  /\ UNCHANGED << sessionVars, targetRegistry, browser, boot, clients,
                  notif, call, criCall, regCall, written >>

\* cri.List rejects: the catch block receives the transport's error.
WaitListRejects(err) ==
  /\ waitCall.pc = "list"
  /\ waitCall' = waitCatch([waitCall EXCEPT !.sawReject = TRUE, !.list = << >>], err)
  /\ UNCHANGED << sessionVars, targetRegistry, browser, boot, clients,
                  notif, call, criCall, regCall, written >>

\* The timer fires: waitForTargetToBeCreated(n - 1) asks cri.List again.
WaitTimerFires ==
  /\ waitCall.pc = "sleep"
  /\ waitCall' = [waitCall EXCEPT !.pc = "list", !.n = @ - 1, !.queries = @ + 1]
  /\ UNCHANGED << sessionVars, targetRegistry, browser, boot, clients,
                  notif, call, criCall, regCall, written >>

Ids_(list) == [i \in 1..Len(list) |-> list[i].id]

\* The partition whose second part forgets its filter.
criPartitionOthersUnfiltered(targets, identifier, active, reg) ==
  LET pages == SelectSeq(targets, isPage) IN
  [pc |-> "returned",
   error |-> Undefined,
   matching |-> Ids_(SelectSeq(pages, LAMBDA t : t.id = active)),
   others |-> Ids_(pages)]

\* Lines 190-209 of getCriTargets on the answer of cri.List: the two parts, as
\* the ids of their targets in order, or a TypeError out of the loop.
criPartition(targets, identifier, active, reg) ==
  LET pages == SelectSeq(targets, isPage) IN
  IF IdentifierFalsy(identifier)
    THEN [pc |-> "returned", error |-> Undefined,
          matching |-> Ids_(SelectSeq(pages, LAMBDA t : t.id = active)),
          others |-> Ids_(SelectSeq(pages, LAMBDA t : t.id # active))]
    ELSE IF \E i \in 1..Len(pages) : matches(reg, pages[i], identifier) = Threw
      THEN [pc |-> "threw", error |-> Threw, matching |-> << >>, others |-> << >>]
      ELSE [pc |-> "returned", error |-> Undefined,
            matching |-> Ids_(SelectSeq(pages,
                           LAMBDA t : Truthy(matches(reg, t, identifier)))),
            others |-> Ids_(SelectSeq(pages,
                           LAMBDA t : ~Truthy(matches(reg, t, identifier))))]

\* getCriTargets(identifier) is called: cri.List is asked.
CallGetCriTargets(identifier) ==
  /\ NoCallPending
  /\ criCall' = [IdleCri EXCEPT !.pc = "list", !.identifier = identifier]
  /\ waitCall' = IdleWait
  /\ call' = IdleCall
  /\ UNCHANGED << sessionVars, targetRegistry, browser, boot, clients,
                  notif, regCall, written >>

\* cri.List answers: the pages are partitioned.
CriListReturns(list) ==
  /\ criCall.pc = "list"
  /\ LET r == criPartition(list, criCall.identifier, activeTargetId, targetRegistry)
     IN  criCall' = [criCall EXCEPT !.pc = r.pc, !.list = list,
                                    !.matching = r.matching, !.others = r.others,
                                    !.error = r.error]
  /\ UNCHANGED << sessionVars, targetRegistry, browser, boot, clients,
                  notif, call, waitCall, regCall, written >>

\* cri.List rejects: so does getCriTargets.
CriListRejects(err) ==
  /\ criCall.pc = "list"
  /\ criCall' = [criCall EXCEPT !.pc = "threw", !.error = err]
  /\ UNCHANGED << sessionVars, targetRegistry, browser, boot, clients,
                  notif, call, waitCall, regCall, written >>

-----------------------------------------------------------------------------
(* The transport: the browser's targets and contexts, and its errors *)

MaxTargets == 3
MaxContexts == 1
MaxSessions == 2

TargetId(i) == "T" \o ToString(i)
ContextId(i) == "C" \o ToString(i)
Client(s) == "client" \o ToString(s)
DebugClient(s) == "debug" \o ToString(s)

\* The context of the targets opened without a context id.
DefaultContext == ContextId(0)

\* The browser as launched: one page in the default context.
InitBrowser == [targets |-> [t \in {TargetId(1)} |-> DefaultContext],
                contexts |-> {}, nextTarget |-> 2, nextContext |-> 1]

\* The target ids calls are made with: those the browser can hand out and one
\* it never does.
TargetIds == { TargetId(i) : i \in 1..MaxTargets } \cup { "T0" }

Urls == { "http://example.com/" }

\* The errors a request to the transport can reject with: error.response is
\* present or not, and error.response.message is a string or absent.
TransportErrors ==
  { [kind |-> "transport", response |-> TRUE,
     message |-> "Failed to find browser context with id C9"],
    [kind |-> "transport", response |-> TRUE,
     message |-> "Invalid parameters: browserContextId: string value expected"],
    [kind |-> "transport", response |-> TRUE, message |-> "Target closed"],
    [kind |-> "transport", response |-> TRUE, message |-> Undefined],
    [kind |-> "transport", response |-> FALSE, message |-> Undefined] }

\* The errors of the requests whose rejection no handler inspects.
RequestErrors == { e \in TransportErrors : e.message = "Target closed" }

\* The browser accepts a Target.createTarget request that names no context, the
\* default context or a context that is alive.
ContextUsable(b, ctx) ==
  ctx = Undefined \/ ctx = DefaultContext \/ ctx \in b.contexts

\* The browser after it opened a target in ctx (the default one when absent).
BrowserOpenTarget(b, ctx) ==
  [b EXCEPT !.targets = MapSet(@, TargetId(b.nextTarget),
                               IF ctx = Undefined THEN DefaultContext ELSE ctx),
            !.nextTarget = @ + 1]

BrowserNewContext(b) ==
  [b EXCEPT !.contexts = @ \cup {ContextId(b.nextContext)}, !.nextContext = @ + 1]

\* Disposing a context closes the targets in it.
BrowserDispose(b, ctx) ==
  [b EXCEPT !.contexts = @ \ {ctx},
            !.targets = [t \in {x \in DOMAIN @ : @[x] # ctx} |-> @[t]]]

-----------------------------------------------------------------------------
(* 4.3 Browser context manager *)

Request(method, targetId, url, ctx) ==
  [method |-> method, targetId |-> targetId, url |-> url, browserContextId |-> ctx]

callFrame == << targetRegistry, boot, clients, waitCall, criCall,
                regCall, written >>

\* The test of lines 129-134 that takes every error for a stale context.
isStaleContextErrorAlways(error) == TRUE

\* The test of lines 129-134 on a rejection of Target.createTarget.
isStaleContextError(error) ==
  /\ error.response
  /\ Truthy(error.message)
  /\ \/ Includes(error.message, "Failed to find browser context with id")
     \/ Includes(error.message, "browserContextId")

\* createdTarget.targetId of line 141: createdTarget is the response object of
\* the first request, or what the catch handler returned in line 135, which is
\* the targetId string of the second response; a string has no targetId.
targetIdOf(createdTarget) ==
  IF createdTarget.kind = "object" THEN createdTarget.targetId ELSE Undefined

\* createTarget(url) up to its first await, as part of the call c: the request
\* of lines 121-127 carries the active context id.
beginCreateTarget(c, url) ==
  IF browserDebugUrlTarget = Undefined
    THEN [c EXCEPT !.pc = "threw", !.error = TypeError]
    ELSE [c EXCEPT !.pc = "createTarget1",
                   !.sent = Append(@, Request("Target.createTarget", Undefined, url,
                                              activeBrowserContextId))]

CallCreateTarget(url) ==
  /\ NoCallPending
  /\ browser.nextTarget <= MaxTargets
  /\ call' = beginCreateTarget([IdleCall EXCEPT !.op = "createTarget", !.arg = url],
                               url)
  /\ waitCall' = IdleWait
  /\ criCall' = IdleCri
  /\ notif' = NoNotif
  /\ UNCHANGED << sessionVars, targetRegistry, browser, boot, clients,
                  regCall, written >>

\* The step of lines 126-141 that makes the created target the active one.
CreateTargetResolvesActivates ==
  /\ call.pc \in {"createTarget1", "createTarget2"}
  /\ LET req == call.sent[Len(call.sent)]
         id == TargetId(browser.nextTarget)
         createdTarget == IF call.pc = "createTarget1"
                            THEN [kind |-> "object", targetId |-> id]
                            ELSE [kind |-> "string", targetId |-> id]
     IN  /\ ContextUsable(browser, req.browserContextId)
         /\ browser' = BrowserOpenTarget(browser, req.browserContextId)
         /\ activeTargetId' = id
         /\ call' = [call EXCEPT !.pc = "returned", !.reported = id,
                                 !.value = targetIdOf(createdTarget)]
  /\ UNCHANGED << criTarget, browserDebugUrlTarget, activeBrowserContextId, notif >>
  /\ UNCHANGED callFrame

\* The transport opens the target and answers {targetId}.
CreateTargetResolves ==
  /\ call.pc \in {"createTarget1", "createTarget2"}
  /\ LET req == call.sent[Len(call.sent)]
         id == TargetId(browser.nextTarget)
         createdTarget == IF call.pc = "createTarget1"
                            THEN [kind |-> "object", targetId |-> id]
                            ELSE [kind |-> "string", targetId |-> id]
     IN  /\ ContextUsable(browser, req.browserContextId)
         /\ browser' = BrowserOpenTarget(browser, req.browserContextId)
         /\ call' = [call EXCEPT !.pc = "returned", !.reported = id,
                                 !.value = targetIdOf(createdTarget)]
  /\ UNCHANGED << sessionVars, notif >>
  /\ UNCHANGED callFrame

\* The transport rejects Target.createTarget: the first time the catch handler
\* of lines 128-139 runs, the second time the rejection is the call's.
CreateTargetRejects(err) ==
  /\ call.pc \in {"createTarget1", "createTarget2"}
  /\ LET c == [call EXCEPT !.errors = Append(@, err)] IN
     call' = IF call.pc = "createTarget1" /\ isStaleContextError(err)
               THEN IF browserDebugUrlTarget = Undefined
                      THEN [c EXCEPT !.pc = "threw", !.error = TypeError]
                      ELSE [c EXCEPT !.pc = "createTarget2",
                                     !.sent = Append(@, Request("Target.createTarget",
                                                 Undefined, call.arg, Undefined))]
               ELSE [c EXCEPT !.pc = "threw", !.error = err]
  /\ UNCHANGED << sessionVars, browser, notif >>
  /\ UNCHANGED callFrame

CallCreateBrowserContext(url) ==
  /\ NoCallPending
  /\ browser.nextTarget <= MaxTargets
  /\ browser.nextContext <= MaxContexts
  /\ LET c == [IdleCall EXCEPT !.op = "createBrowserContext", !.arg = url] IN
     call' = IF browserDebugUrlTarget = Undefined
               THEN [c EXCEPT !.pc = "threw", !.error = TypeError]
               ELSE [c EXCEPT !.pc = "createBrowserContext",
                              !.sent = << Request("Target.createBrowserContext",
                                                  Undefined, Undefined, Undefined) >>]
  /\ waitCall' = IdleWait
  /\ criCall' = IdleCri
  /\ notif' = NoNotif
  /\ UNCHANGED << sessionVars, targetRegistry, browser, boot, clients,
                  regCall, written >>

\* The step of lines 115-117 that builds the request of createTarget before the
\* fresh context has become the active one.
CreateBrowserContextResolvesLate ==
  /\ call.pc = "createBrowserContext"
  /\ LET id == ContextId(browser.nextContext) IN
     /\ browser' = BrowserNewContext(browser)
     /\ activeBrowserContextId' = id
     /\ call' = IF browserDebugUrlTarget = Undefined
                  THEN [call EXCEPT !.pc = "threw", !.error = TypeError, !.ctx = id]
                  ELSE [call EXCEPT !.pc = "createTarget1", !.ctx = id,
                          !.sent = Append(@, Request("Target.createTarget", Undefined,
                                                     call.arg, activeBrowserContextId))]
  /\ UNCHANGED << criTarget, browserDebugUrlTarget, activeTargetId, notif >>
  /\ UNCHANGED callFrame

\* Lines 115-117: the fresh context becomes the active one, then createTarget
\* runs up to its request.
CreateBrowserContextResolves ==
  /\ call.pc = "createBrowserContext"
  /\ LET id == ContextId(browser.nextContext) IN
     /\ browser' = BrowserNewContext(browser)
     /\ activeBrowserContextId' = id
     /\ call' = IF browserDebugUrlTarget = Undefined
                  THEN [call EXCEPT !.pc = "threw", !.error = TypeError, !.ctx = id]
                  ELSE [call EXCEPT !.pc = "createTarget1", !.ctx = id,
                          !.sent = Append(@, Request("Target.createTarget", Undefined,
                                                     call.arg, id))]
  /\ UNCHANGED << criTarget, browserDebugUrlTarget, activeTargetId, notif >>
  /\ UNCHANGED callFrame

CreateBrowserContextRejects(err) ==
  /\ call.pc = "createBrowserContext"
  /\ call' = [call EXCEPT !.pc = "threw", !.error = err]
  /\ UNCHANGED << sessionVars, browser, notif >>
  /\ UNCHANGED callFrame
\* getBrowserContextIdForTarget(targetId) up to its await, as part of the call
\* c: Target.getTargetInfo is asked on criTarget.
beginGetTargetInfo(c, targetId, pc) ==
  IF criTarget = Undefined
    THEN [c EXCEPT !.pc = "threw", !.error = TypeError]
    ELSE [c EXCEPT !.pc = pc,
                   !.sent = << Request("Target.getTargetInfo", targetId, Undefined,
                                       Undefined) >>]

CallCloseBrowserContext(targetId) ==
  /\ NoCallPending
  /\ call' = beginGetTargetInfo(
               [IdleCall EXCEPT !.op = "closeBrowserContext", !.arg = targetId],
               targetId, "closeGetTargetInfo")
  /\ waitCall' = IdleWait
  /\ criCall' = IdleCri
  /\ notif' = NoNotif
  /\ UNCHANGED << sessionVars, targetRegistry, browser, boot, clients,
                  regCall, written >>

\* The step of lines 145-146 that asks to dispose the active context.
CloseGetTargetInfoResolvesActive ==
  /\ call.pc = "closeGetTargetInfo"
  /\ call.arg \in DOMAIN browser.targets
  /\ LET ctx == browser.targets[call.arg] IN
     call' = IF browserDebugUrlTarget = Undefined
               THEN [call EXCEPT !.pc = "threw", !.error = TypeError, !.ctx = ctx]
               ELSE [call EXCEPT !.pc = "dispose", !.ctx = activeBrowserContextId,
                       !.sent = Append(@, Request("Target.disposeBrowserContext",
                                   Undefined, Undefined, activeBrowserContextId))]
  /\ UNCHANGED << sessionVars, browser, notif >>
  /\ UNCHANGED callFrame

\* Lines 145-146: the owning context is known, its disposal is asked.
CloseGetTargetInfoResolves ==
  /\ call.pc = "closeGetTargetInfo"
  /\ call.arg \in DOMAIN browser.targets
  /\ LET ctx == browser.targets[call.arg] IN
     call' = IF browserDebugUrlTarget = Undefined
               THEN [call EXCEPT !.pc = "threw", !.error = TypeError, !.ctx = ctx]
               ELSE [call EXCEPT !.pc = "dispose", !.ctx = ctx,
                       !.sent = Append(@, Request("Target.disposeBrowserContext",
                                                  Undefined, Undefined, ctx))]
  /\ UNCHANGED << sessionVars, browser, notif >>
  /\ UNCHANGED callFrame

\* The step of line 147 that forgets the active context when it was disposed.
DisposeResolvesClearsActive ==
  /\ call.pc = "dispose"
  /\ call.ctx \in browser.contexts
  /\ browser' = BrowserDispose(browser, call.ctx)
  /\ activeBrowserContextId' =
       IF call.ctx = activeBrowserContextId THEN Undefined ELSE activeBrowserContextId
  /\ call' = [call EXCEPT !.pc = "returned",
                          !.value = Bool(call.ctx = activeBrowserContextId)]
  /\ UNCHANGED << criTarget, browserDebugUrlTarget, activeTargetId, notif >>
  /\ UNCHANGED callFrame

\* Line 147: the context is disposed; was it the active one?
DisposeResolves ==
  /\ call.pc = "dispose"
  /\ call.ctx \in browser.contexts
  /\ browser' = BrowserDispose(browser, call.ctx)
  /\ call' = [call EXCEPT !.pc = "returned",
                          !.value = Bool(call.ctx = activeBrowserContextId)]
  /\ UNCHANGED << sessionVars, notif >>
  /\ UNCHANGED callFrame

CallSwitchBrowserContext(targetId) ==
  /\ NoCallPending
  /\ call' = beginGetTargetInfo(
               [IdleCall EXCEPT !.op = "switchBrowserContext", !.arg = targetId],
               targetId, "switchGetTargetInfo")
  /\ waitCall' = IdleWait
  /\ criCall' = IdleCri
  /\ notif' = NoNotif
  /\ UNCHANGED << sessionVars, targetRegistry, browser, boot, clients,
                  regCall, written >>

\* The step of lines 151-152 that activates the target and leaves the active
\* context id alone.
SwitchGetTargetInfoResolvesNoAdopt ==
  /\ call.pc = "switchGetTargetInfo"
  /\ call.arg \in DOMAIN browser.targets
  /\ LET ctx == browser.targets[call.arg] IN
     call' = IF browserDebugUrlTarget = Undefined
               THEN [call EXCEPT !.pc = "threw", !.error = TypeError, !.ctx = ctx]
               ELSE [call EXCEPT !.pc = "activate", !.ctx = ctx,
                       !.sent = Append(@, Request("Target.activateTarget",
                                                  call.arg, Undefined, Undefined))]
  /\ UNCHANGED << sessionVars, browser, notif >>
  /\ UNCHANGED callFrame

\* Lines 151-152: the owning context becomes the active one, then the target
\* is activated.
SwitchGetTargetInfoResolves ==
  /\ call.pc = "switchGetTargetInfo"
  /\ call.arg \in DOMAIN browser.targets
  /\ LET ctx == browser.targets[call.arg] IN
     /\ activeBrowserContextId' = ctx
     /\ call' = IF browserDebugUrlTarget = Undefined
                  THEN [call EXCEPT !.pc = "threw", !.error = TypeError, !.ctx = ctx]
                  ELSE [call EXCEPT !.pc = "activate", !.ctx = ctx,
                          !.sent = Append(@, Request("Target.activateTarget",
                                                     call.arg, Undefined, Undefined))]
  /\ UNCHANGED << criTarget, browserDebugUrlTarget, activeTargetId, browser, notif >>
  /\ UNCHANGED callFrame

ActivateResolves ==
  /\ call.pc = "activate"
  /\ call.arg \in DOMAIN browser.targets
  /\ call' = [call EXCEPT !.pc = "returned", !.value = Undefined]
  /\ UNCHANGED << sessionVars, browser, notif >>
  /\ UNCHANGED callFrame

\* Target.getTargetInfo, Target.disposeBrowserContext or Target.activateTarget
\* rejects: the call rejects with the transport's error.
RequestRejects(err) ==
  /\ call.pc \in {"closeGetTargetInfo", "dispose", "switchGetTargetInfo", "activate"}
  /\ call' = [call EXCEPT !.pc = "threw", !.error = err]
  /\ UNCHANGED << sessionVars, browser, notif >>
  /\ UNCHANGED callFrame
-----------------------------------------------------------------------------
(* 4.5 Session bootstrap *)

Sessions == 1..MaxSessions

\* What createdSession is emitted with as currentTarget: a target id, or an
\* object with an id property.
CurrentTargets ==
  { [kind |-> "string", id |-> TargetId(1)], [kind |-> "object", id |-> TargetId(2)] }

\* An object used where a target id is expected.
ObjectValue == "<object>"

\* Line 22: currentTarget.id ? currentTarget.id : currentTarget
adoptTargetId(currentTarget) ==
  IF currentTarget.kind = "object"
    THEN IF Truthy(currentTarget.id) THEN currentTarget.id ELSE ObjectValue
    ELSE currentTarget.id

\* The steps of createdSessionListener, in the order of its lines.
BootSteps == << "publish", "adopt", "context", "debugUrl", "discover", "subscribe",
                "resolve" >>

\* One activation of createdSessionListener: where it is suspended, what it was
\* called with, the barrier promise it emitted, the steps it has taken, the
\* context id it resolved and the client it asked to discover targets.  An
\* activation that has ended keeps none of its locals.
IdleBoot == [pc |-> "idle", currentTarget |-> Undefined, barrier |-> "none",
             trace |-> << >>, ctx |-> Undefined, via |-> Undefined]

\* An activation that ended before a later session was created: nothing of it
\* is kept but that it took place.
SupersededBoot == [IdleBoot EXCEPT !.pc = "superseded"]

NoClient == [discover |-> FALSE, handlers |-> 0]

NoBootPending ==
  \A s \in Sessions : boot[s].pc \in {"idle", "done", "failed", "superseded"}

bootFrame == << targetRegistry, waitCall, criCall, regCall, written >>

\* Lines 14-23 up to the first await: the barrier is emitted, the handle and
\* the target id are adopted, Target.getTargetInfo is asked.
CreatedSession(s, currentTarget) ==
  /\ boot[s].pc = "idle"
  /\ \A r \in Sessions : r < s => boot[r].pc # "idle"
  /\ criTarget' = Client(s)
  /\ activeTargetId' = adoptTargetId(currentTarget)
  /\ boot' = [r \in Sessions |->
                IF r = s
                  THEN [IdleBoot EXCEPT
                          !.pc = "getTargetInfo", !.currentTarget = currentTarget,
                          !.barrier = "pending", !.trace = << "publish", "adopt" >>]
                  ELSE IF boot[r].pc \in {"done", "failed"} THEN SupersededBoot
                  ELSE boot[r]]
  /\ notif' = NoNotif
  /\ call' = IdleCall
  /\ UNCHANGED << browserDebugUrlTarget, activeBrowserContextId, browser, clients >>
  /\ UNCHANGED bootFrame

\* Lines 23-28: the context id of the active target is stored, the connection
\* to the browser debug url is asked.
BootGetTargetInfoResolves(s) ==
  /\ boot[s].pc = "getTargetInfo"
  /\ adoptTargetId(boot[s].currentTarget) \in DOMAIN browser.targets
  /\ LET ctx == browser.targets[adoptTargetId(boot[s].currentTarget)] IN
     /\ activeBrowserContextId' = ctx
     /\ boot' = [boot EXCEPT ![s].pc = "connect", ![s].ctx = ctx,
                             ![s].trace = Append(@, "context")]
  /\ UNCHANGED << criTarget, browserDebugUrlTarget, activeTargetId, browser, clients >>
  /\ UNCHANGED << notif, call, bootFrame >>

\* The step of lines 24-29 that resolves the barrier as soon as it is connected.
BootConnectResolvesEarly(s) ==
  /\ boot[s].pc = "connect"
  /\ browserDebugUrlTarget' = DebugClient(s)
  /\ clients' = [clients EXCEPT ![criTarget].discover = TRUE]
  /\ boot' = [boot EXCEPT ![s].pc = "setDiscoverTargets", ![s].via = criTarget,
                          ![s].barrier = "resolved",
                          ![s].trace = @ \o << "debugUrl", "resolve" >>]
  /\ UNCHANGED << criTarget, activeBrowserContextId, activeTargetId, browser >>
  /\ UNCHANGED << notif, call, bootFrame >>

\* Lines 24-29: the debug-url handle is stored, Target.setDiscoverTargets is
\* asked on criTarget.
BootConnectResolves(s) ==
  /\ boot[s].pc = "connect"
  /\ browserDebugUrlTarget' = DebugClient(s)
  /\ clients' = [clients EXCEPT ![criTarget].discover = TRUE]
  /\ boot' = [boot EXCEPT ![s].pc = "setDiscoverTargets", ![s].via = criTarget,
                          ![s].trace = Append(@, "debugUrl")]
  /\ UNCHANGED << criTarget, activeBrowserContextId, activeTargetId, browser >>
  /\ UNCHANGED << notif, call, bootFrame >>

\* Lines 29-38: discovery is on, the targetCreated handler is registered on
\* criTarget, the barrier is resolved.
BootSetDiscoverTargetsResolves(s) ==
  /\ boot[s].pc = "setDiscoverTargets"
  /\ clients' = [clients EXCEPT ![criTarget].handlers = @ + 1]
  /\ boot' = [boot EXCEPT ![s] = [IdleBoot EXCEPT
                !.pc = "done", !.barrier = "resolved",
                !.trace = boot[s].trace \o << "discover", "subscribe", "resolve" >>]]
  /\ UNCHANGED << sessionVars, browser >>
  /\ UNCHANGED << notif, call, bootFrame >>

\* An awaited call of the listener rejects: the listener ends there, with its
\* barrier left pending.
BootRejects(s) ==
  /\ boot[s].pc \in {"getTargetInfo", "connect", "setDiscoverTargets"}
  /\ boot' = [boot EXCEPT ![s] = [IdleBoot EXCEPT
                !.pc = "failed", !.barrier = boot[s].barrier, !.trace = boot[s].trace]]
  /\ UNCHANGED << sessionVars, browser, clients >>
  /\ UNCHANGED << notif, call, bootFrame >>

\* The targetInfo of the Target.targetCreated notifications.
TargetInfos ==
  [ targetId : {"T9"}, type : {"page", "iframe"}, openerId : {Undefined, "", "T1"} ]

\* The handler that re-broadcasts every page.
onTargetCreatedAnyPage(target, firefoxFlag) ==
  IF target.type = "page" THEN << target >> ELSE << >>

\* The handler of lines 30-37 on one notification: the payloads it emits on the
\* event bus as 'targetCreated'.
onTargetCreated(target, firefoxFlag) ==
  IF target.type = "page"
    THEN IF Truthy(target.openerId) \/ firefoxFlag THEN << target >> ELSE << >>
    ELSE << >>

RECURSIVE Repeat(_, _)
Repeat(seq, k) == IF k = 0 THEN << >> ELSE seq \o Repeat(seq, k - 1)

\* The transport delivers Target.targetCreated on a client that was asked to
\* discover targets: every handler registered on the client runs.  The handler
\* shares nothing with the exported operations, so it is delivered between
\* calls, and the record of the call that ended before it is dropped.
TargetCreated(s, target, firefox) ==
  /\ clients[Client(s)].discover
  /\ NoCallPending
  /\ call' = IdleCall
  /\ notif' = [client |-> Client(s), target |-> target, firefox |-> firefox,
               handlers |-> clients[Client(s)].handlers,
               emitted |-> Repeat(onTargetCreated(target, firefox),
                                  clients[Client(s)].handlers)]
  /\ UNCHANGED << sessionVars, targetRegistry, browser, boot, clients, waitCall,
                  criCall, regCall, written >>

-----------------------------------------------------------------------------
(* Specifications *)

InitIdle ==
  /\ criTarget = Undefined
  /\ browserDebugUrlTarget = Undefined
  /\ activeBrowserContextId = Undefined
  /\ activeTargetId = Undefined
  /\ targetRegistry = EmptyMap
  /\ browser = InitBrowser
  /\ boot = [s \in Sessions |-> IdleBoot]
  /\ clients = [c \in { Client(s) : s \in Sessions } |-> NoClient]
  /\ notif = NoNotif
  /\ call = IdleCall
  /\ waitCall = IdleWait
  /\ criCall = IdleCri
  /\ regCall = NoRegCall
  /\ written = NothingWritten

\* The session and its context manager: bootstraps and calls, one at a time.
Init == InitIdle

Next ==
  \/ \E s \in Sessions, ct \in CurrentTargets :
       NoBootPending /\ NoCallPending /\ CreatedSession(s, ct)
  \/ \E s \in Sessions : BootGetTargetInfoResolves(s)
  \/ \E s \in Sessions : BootConnectResolves(s)
  \/ \E s \in Sessions : BootSetDiscoverTargetsResolves(s)
  \/ \E s \in Sessions : BootRejects(s)
  \/ \E u \in Urls : NoBootPending /\ CallCreateTarget(u)
  \/ CreateTargetResolves
  \/ \E e \in TransportErrors : CreateTargetRejects(e)
  \/ \E u \in Urls : NoBootPending /\ CallCreateBrowserContext(u)
  \/ CreateBrowserContextResolves
  \/ \E e \in RequestErrors : CreateBrowserContextRejects(e)
  \/ \E t \in TargetIds : NoBootPending /\ CallCloseBrowserContext(t)
  \/ CloseGetTargetInfoResolves
  \/ DisposeResolves
  \/ \E t \in TargetIds : NoBootPending /\ CallSwitchBrowserContext(t)
  \/ SwitchGetTargetInfoResolves
  \/ ActivateResolves
  \/ \E e \in RequestErrors : RequestRejects(e)

Spec == Init /\ [][Next]_vars

\* The sessions and the notifications of their clients.
NextSession ==
  \/ \E s \in Sessions, ct \in CurrentTargets : NoBootPending /\ CreatedSession(s, ct)
  \/ \E s \in Sessions : BootGetTargetInfoResolves(s)
  \/ \E s \in Sessions : BootConnectResolves(s)
  \/ \E s \in Sessions : BootSetDiscoverTargetsResolves(s)
  \/ \E s \in Sessions : BootRejects(s)
  \/ \E s \in Sessions, t \in TargetInfos, f \in BOOLEAN : TargetCreated(s, t, f)

SpecSession == Init /\ [][NextSession]_vars

\* The registry on its own.
NextRegistry ==
  \/ \E n \in Names, t \in Ids \cup {Undefined} : Register(n, t)
  \/ \E n \in Names : Unregister(n)
  \/ ClearRegister
  \/ \E t \in Ids, n \in Names \cup {Undefined} : IsMatchingTarget(t, n)

SpecRegistry == Init /\ [][NextRegistry]_vars

\* Target discovery: the session has an active target and the registry some
\* entries; the transport answers the list queries as it likes.
InitDiscovery ==
  /\ criTarget = Undefined
  /\ browserDebugUrlTarget = Undefined
  /\ activeBrowserContextId = Undefined
  /\ activeTargetId \in {Undefined, "T1", "T4"}
  /\ targetRegistry \in { EmptyMap, [k \in {"tab1"} |-> "T2"],
                          [k \in {"tab1", "tab2"} |-> IF k = "tab1" THEN "T4" ELSE "T1"] }
  /\ browser = InitBrowser
  /\ boot = [s \in Sessions |-> IdleBoot]
  /\ clients = [c \in { Client(s) : s \in Sessions } |-> NoClient]
  /\ notif = NoNotif
  /\ call = IdleCall
  /\ waitCall = IdleWait
  /\ criCall = IdleCri
  /\ regCall = NoRegCall
  /\ written = NothingWritten

NextDiscovery ==
  \/ \E n \in 0..MaxAttempts : CallWaitForTargetToBeCreated(n)
  \/ \E l \in TargetLists : WaitListReturns(l)
  \/ \E e \in ListErrors : WaitListRejects(e)
  \/ WaitTimerFires
  \/ \E i \in Identifiers : CallGetCriTargets(i)
  \/ \E l \in TargetLists : CriListReturns(l)
  \/ \E e \in ListErrors : CriListRejects(e)

SpecDiscovery == InitDiscovery /\ [][NextDiscovery]_vars

\* Overlapping bootstraps: a second session is created while the first one is
\* still awaiting the transport, and the awaited calls return in any order.
\* The browser has a second page, in a context of its own.
InitOverlap ==
  /\ criTarget = Undefined
  /\ browserDebugUrlTarget = Undefined
  /\ activeBrowserContextId = Undefined
  /\ activeTargetId = Undefined
  /\ targetRegistry = EmptyMap
  /\ browser = BrowserOpenTarget(BrowserNewContext(InitBrowser), ContextId(1))
  /\ boot = [s \in Sessions |-> IdleBoot]
  /\ clients = [c \in { Client(s) : s \in Sessions } |-> NoClient]
  /\ notif = NoNotif
  /\ call = IdleCall
  /\ waitCall = IdleWait
  /\ criCall = IdleCri
  /\ regCall = NoRegCall
  /\ written = NothingWritten

NextOverlap ==
  \/ \E s \in Sessions, ct \in CurrentTargets : CreatedSession(s, ct)
  \/ \E s \in Sessions : BootGetTargetInfoResolves(s)
  \/ \E s \in Sessions : BootConnectResolves(s)
  \/ \E s \in Sessions : BootSetDiscoverTargetsResolves(s)
  \/ \E s \in Sessions : BootRejects(s)

SpecOverlap == InitOverlap /\ [][NextOverlap]_vars

\* Every operation of the module, one call at a time: the bootstraps, the
\* context manager, target discovery and the registry.  The list queries are
\* answered with the lists of the first two pages, the registry is used with
\* one name.
ShortLists ==
  { l \in TargetLists : \A i \in 1..Len(l) : l[i].id \in {TargetId(1), TargetId(2)} }

NextOperations ==
  \/ Next
  \/ NoBootPending /\ CallWaitForTargetToBeCreated(2)
  \/ \E l \in ShortLists : WaitListReturns(l)
  \/ \E e \in ListErrors : WaitListRejects(e)
  \/ WaitTimerFires
  \/ NoBootPending /\ CallGetCriTargets(NoIdentifier)
  \/ \E l \in ShortLists : CriListReturns(l)
  \/ \E e \in ListErrors : CriListRejects(e)
  \/ NoBootPending /\ NoCallPending /\ Register("tab1", TargetId(1))
  \/ NoBootPending /\ NoCallPending /\ Unregister("tab1")
  \/ NoBootPending /\ NoCallPending /\ ClearRegister

SpecOperations == Init /\ [][NextOperations]_vars

-----------------------------------------------------------------------------
(* Properties *)

Max(a, b) == IF a >= b THEN a ELSE b

\* The Target.createTarget requests the call in flight has issued.
CreateTargetRequests ==
  SelectSeq(call.sent, LAMBDA r : r.method = "Target.createTarget")

\* An error is a stale-context error when its response message contains one of
\* the two markers.
StaleMarked(e) ==
  /\ e.response
  /\ e.message # Undefined
  /\ \/ Includes(e.message, "Failed to find browser context with id")
     \/ Includes(e.message, "browserContextId")

\* The call has ended after its first Target.createTarget request was rejected
\* with a stale-context error and its second one was answered.
FallbackSucceeded ==
  /\ call.pc = "returned"
  /\ call.op \in {"createTarget", "createBrowserContext"}
  /\ Len(call.errors) = 1
  /\ StaleMarked(call.errors[1])

\* C1: when the first Target.createTarget request is rejected with a
\* stale-context error, createTarget issues a second request without a
\* browserContextId and, if that one succeeds, returns the targetId the
\* transport reported for it, a defined target id.
C1_FallbackReturnsReportedTargetId ==
  FallbackSucceeded =>
    /\ Len(CreateTargetRequests) = 2
    /\ CreateTargetRequests[2].browserContextId = Undefined
    /\ call.value = call.reported
    /\ call.value # Undefined

\* C2: createTarget issues at most two Target.createTarget requests; a first
\* rejection that is no stale-context error reaches the caller with no second
\* request; a rejection of the fallback request reaches the caller with no
\* third request.
C2_AtMostTwoCreateTargetRequests ==
  /\ Len(CreateTargetRequests) <= 2
  /\ Len(call.errors) <= Len(CreateTargetRequests)
  /\ (Len(call.errors) >= 1 /\ ~StaleMarked(call.errors[1])) =>
       /\ call.pc = "threw"
       /\ call.error = call.errors[1]
       /\ Len(CreateTargetRequests) = 1
  /\ Len(call.errors) = 2 =>
       /\ call.pc = "threw"
       /\ call.error = call.errors[2]
       /\ Len(CreateTargetRequests) = 2

\* The fallback request was rejected and its error thrown.
C2_Witness ==
  /\ call.op = "createTarget"
  /\ call.pc = "threw"
  /\ Len(call.errors) = 2
  /\ StaleMarked(call.errors[1])
  /\ call.error = call.errors[2]

WaitEnded == waitCall.pc \in {"returned", "threw"}

\* C3: for n >= 1, waitForTargetToBeCreated(n) against lists that never hold a
\* page asks for the list exactly n times, with a delay before each retry, and
\* then rethrows the 'no targets yet' failure; it never asks more than n times,
\* and what it has asked plus what it may still ask is always n.
C3_WaitQueriesExactlyN ==
  /\ waitCall.pc # "idle" =>
       /\ waitCall.queries <= Max(1, waitCall.n0)
       /\ waitCall.queries + Max(1, waitCall.n) - 1 = Max(1, waitCall.n0)
  /\ waitCall.pc = "sleep" => waitCall.delays = waitCall.queries /\ waitCall.n >= 2
  /\ (WaitEnded /\ ~waitCall.sawPage /\ ~waitCall.sawReject /\ waitCall.n0 >= 1) =>
       /\ waitCall.pc = "threw"
       /\ waitCall.error = NoTargetsYet
       /\ waitCall.queries = waitCall.n0
       /\ waitCall.delays = waitCall.n0 - 1

\* Three queries of lists without a page, then the failure.
C3_Witness ==
  /\ waitCall.pc = "threw"
  /\ waitCall.n0 = 3
  /\ waitCall.queries = 3
  /\ waitCall.delays = 2
  /\ ~waitCall.sawPage
  /\ ~waitCall.sawReject

\* C4: waitForTargetToBeCreated(n) returns at the first query whose list holds
\* a page, with the first page of that list, after at most max(1, n) queries;
\* no query and no delay follows that query.
C4_WaitReturnsFirstPage ==
  /\ waitCall.sawPage <=> waitCall.pc = "returned"
  /\ waitCall.pc = "returned" =>
       /\ \E i \in 1..Len(waitCall.list) :
            /\ waitCall.list[i].type = "page"
            /\ \A j \in 1..(i - 1) : waitCall.list[j].type # "page"
            /\ waitCall.value = waitCall.list[i].id
       /\ waitCall.queries <= Max(1, waitCall.n0)
       /\ waitCall.delays = waitCall.queries - 1

\* The second query is answered with a list whose first page is not its first
\* target.
C4_Witness ==
  /\ waitCall.pc = "returned"
  /\ waitCall.queries = 2
  /\ waitCall.n0 = 3
  /\ Len(waitCall.list) >= 2
  /\ waitCall.list[1].type # "page"

\* The last registry call was a read: register(name) with one argument.
RegistryRead == regCall.op = "register" /\ regCall.target = Undefined

\* A registry call leaves the entries of the names other than its own alone.
OthersUntouched ==
  \A m \in Names \ {regCall.name} :
    /\ m \in DOMAIN targetRegistry <=> m \in DOMAIN regCall.before
    /\ MapGet(targetRegistry, m) = MapGet(regCall.before, m)

C6_MatchIffRegistered ==
  regCall.op = "isMatchingTarget" =>
    (Truthy(regCall.ret) <=>
       /\ regCall.name \in DOMAIN targetRegistry
       /\ targetRegistry[regCall.name] = regCall.target)

\* A name registered for another target does not match.
C6_Witness ==
  /\ regCall.op = "isMatchingTarget"
  /\ regCall.name \in DOMAIN targetRegistry
  /\ targetRegistry[regCall.name] # regCall.target
  /\ ~Truthy(regCall.ret)

\* The ids of the pages of the list that getCriTargets was answered with.
ListedPages == { criCall.list[i].id : i \in { j \in 1..Len(criCall.list) :
                                               criCall.list[j].type = "page" } }

Range(seq) == { seq[i] : i \in 1..Len(seq) }

PositionIn(list, id) == CHOOSE i \in 1..Len(list) : list[i].id = id

\* part holds ids of the list, each once, in the order of the list.
InListOrder(part, list) ==
  \A i, j \in 1..Len(part) :
    i < j => PositionIn(list, part[i]) < PositionIn(list, part[j])

\* The two parts hold the pages of the list and nothing else, each page in
\* exactly one part, each part in the order of the list.
PartitionOfPages ==
  /\ Range(criCall.matching) \cup Range(criCall.others) = ListedPages
  /\ Range(criCall.matching) \cap Range(criCall.others) = {}
  /\ Len(criCall.matching) + Len(criCall.others) = Cardinality(ListedPages)
  /\ InListOrder(criCall.matching, criCall.list)
  /\ InListOrder(criCall.others, criCall.list)

\* C7: getCriTargets() without identifier returns the pages of the list in two
\* parts: 'matching' holds the page whose id is the active target id (at most
\* one), 'others' every other page, no page is in both or in neither, no other
\* target is in either, and each part keeps the order of the list.
C7_PartitionByActiveTarget ==
  (criCall.pc = "returned" /\ IdentifierFalsy(criCall.identifier)) =>
    /\ PartitionOfPages
    /\ \A id \in Range(criCall.matching) : id = activeTargetId
    /\ \A id \in Range(criCall.others) : id # activeTargetId
    /\ Len(criCall.matching) <= 1

\* Three pages are listed: the active one and two others.
C7_Witness ==
  /\ criCall.pc = "returned"
  /\ criCall.identifier = NoIdentifier
  /\ Len(criCall.matching) = 1
  /\ Len(criCall.others) = 2
  /\ criCall.list[1].id # activeTargetId

\* getCriTargets was called with an identifier and cri.List has answered it.
IdentifierCallAnswered ==
  /\ criCall.pc \in {"returned", "threw"}
  /\ ~IdentifierFalsy(criCall.identifier)
  /\ criCall.error \notin ListErrors

\* C8: getCriTargets(identifier) puts every page of the list in exactly one of
\* 'matching' and 'others', in list order; a page is in 'matching' exactly when
\* isMatchingUrl, isMatchingRegex or isMatchingTarget accepts it, whatever the
\* active target is; other targets are in neither part.
C8_PartitionByMatchers ==
  IdentifierCallAnswered =>
    /\ criCall.pc = "returned"
    /\ PartitionOfPages
    /\ \A i \in 1..Len(criCall.list) :
         criCall.list[i].type = "page" =>
           (criCall.list[i].id \in Range(criCall.matching) <=>
              \/ Truthy(isMatchingUrl(criCall.list[i], criCall.identifier))
              \/ Truthy(isMatchingRegex(criCall.list[i], criCall.identifier))
              \/ Truthy(isMatchingTarget(targetRegistry, criCall.list[i].id,
                                         criCall.identifier.name)))

IsPrefix(a, b) == Len(a) <= Len(b) /\ a = SubSeq(b, 1, Len(a))

\* C9: in every session bootstrap the barrier promise is emitted before any
\* process-wide state is changed, and it is resolved only after, in this
\* order, the Target handle and the active target id were adopted, the active
\* context id was resolved, the browser-debug-url handle was obtained,
\* Target.setDiscoverTargets has completed and the targetCreated handler was
\* registered: whoever sees the barrier resolved sees the session set up.
C9_BarrierResolvedAfterSetup ==
  \A s \in Sessions :
    /\ IsPrefix(boot[s].trace, BootSteps)
    /\ boot[s].barrier = "none" <=> boot[s].trace = << >>
    /\ boot[s].pc = "idle" =>
         /\ boot[s].barrier = "none"
         /\ criTarget # Client(s)
         /\ browserDebugUrlTarget # DebugClient(s)
         /\ clients[Client(s)] = NoClient
    /\ boot[s].barrier = "resolved" =>
         /\ boot[s].trace = BootSteps
         /\ criTarget = Client(s)
         /\ activeTargetId \in DOMAIN browser.targets
         /\ activeBrowserContextId = browser.targets[activeTargetId]
         /\ browserDebugUrlTarget = DebugClient(s)
         /\ clients[Client(s)].discover
         /\ clients[Client(s)].handlers >= 1

\* The second session has resolved its barrier.
C9_Witness ==
  /\ boot[2].barrier = "resolved"
  /\ boot[2].pc = "done"
  /\ boot[1].pc = "superseded"

\* The condition of the handler: a page that has an opener id, or any page
\* when the firefox flag is set.
Rebroadcast(target, firefoxFlag) ==
  /\ target.type = "page"
  /\ target.openerId \notin {Undefined, ""} \/ firefoxFlag

\* C10: after bootstrap, a Target.targetCreated notification is emitted on the
\* event bus as 'targetCreated', once and with the raw event, exactly when the
\* target is a page and has a non-empty opener id or the firefox flag is set;
\* the other notifications are not emitted, nor are those of a client whose
\* bootstrap has not registered its handler.
C10_RebroadcastIffPageWithOpener ==
  /\ \A s \in Sessions :
       /\ clients[Client(s)].handlers <= 1
       /\ clients[Client(s)].handlers = 1 =>
            boot[s].pc \in {"done", "superseded"} /\ clients[Client(s)].discover
       /\ boot[s].pc = "done" => clients[Client(s)].handlers = 1
  /\ notif.client # Undefined =>
       /\ notif.handlers = 1 =>
            notif.emitted = IF Rebroadcast(notif.target, notif.firefox)
                              THEN << notif.target >> ELSE << >>
       /\ notif.handlers = 0 => notif.emitted = << >>

\* A page without opener id is re-broadcast because the firefox flag is set.
C10_Witness ==
  /\ notif.client # Undefined
  /\ notif.handlers = 1
  /\ notif.target.type = "page"
  /\ notif.target.openerId = Undefined
  /\ notif.firefox
  /\ notif.emitted = << notif.target >>

\* The Target.disposeBrowserContext requests the call in flight has issued.
DisposeRequests ==
  SelectSeq(call.sent, LAMBDA r : r.method = "Target.disposeBrowserContext")

\* C11: closeBrowserContext(targetId) asks Target.getTargetInfo for targetId,
\* asks the transport to dispose exactly the context reported for it, once,
\* and returns true exactly when that context id is the active context id; if
\* the context cannot be resolved, no dispose request is issued and the call
\* ends with the error.
C11_CloseDisposesOwningContext ==
  call.op = "closeBrowserContext" =>
    /\ Len(call.sent) >= 1 =>
         call.sent[1] = Request("Target.getTargetInfo", call.arg, Undefined, Undefined)
    /\ Len(DisposeRequests) <= 1
    /\ call.pc = "closeGetTargetInfo" => DisposeRequests = << >>
    /\ call.pc = "dispose" =>
         /\ call.arg \in DOMAIN browser.targets
         /\ DisposeRequests = << Request("Target.disposeBrowserContext", Undefined,
                                         Undefined, browser.targets[call.arg]) >>
    /\ call.pc = "returned" =>
         /\ Len(DisposeRequests) = 1
         /\ DisposeRequests[1].browserContextId = call.ctx
         /\ call.ctx \notin browser.contexts
         /\ call.arg \notin DOMAIN browser.targets
         /\ call.value = Bool(call.ctx = activeBrowserContextId)
    /\ (call.pc = "threw" /\ call.ctx = Undefined) =>
         /\ DisposeRequests = << >>
         /\ call.error \in RequestErrors \cup {TypeError}

\* A context that is not the active one was disposed: the call returned false.
C11_Witness ==
  /\ call.op = "closeBrowserContext"
  /\ call.pc = "returned"
  /\ call.value = False
  /\ activeBrowserContextId = DefaultContext
  /\ call.ctx = ContextId(1)

\* The context lookup of closeBrowserContext was rejected.
C11_WitnessLookupFails ==
  /\ call.op = "closeBrowserContext"
  /\ call.pc = "threw"
  /\ call.ctx = Undefined
  /\ call.error \in RequestErrors

\* A session is up and nothing is in flight: its bootstrap has completed, and
\* the last call made since, if any, has returned.
SessionAtRest ==
  /\ NoBootPending
  /\ \E s \in Sessions : boot[s].pc = "done"
  /\ call.pc \in {"idle", "returned"}

\* C12: after a completed session bootstrap and any sequence of completed
\* createBrowserContext, createTarget, closeBrowserContext and
\* switchBrowserContext calls, the active context id is the browserContextId
\* the transport reports for the active target id.
C12_ActiveContextOwnsActiveTarget ==
  SessionAtRest =>
    /\ activeTargetId \in DOMAIN browser.targets
    /\ activeBrowserContextId = browser.targets[activeTargetId]

\* While createBrowserContext has no fresh context id yet, it issues no
\* Target.createTarget request and the active context id stays what it was.
NoContextNoEffect ==
  (call'.op = "createBrowserContext" /\ call'.ctx = Undefined) =>
    /\ activeBrowserContextId' = activeBrowserContextId
    /\ SelectSeq(call'.sent, LAMBDA r : r.method = "Target.createTarget") = << >>

\* createBrowserContext has its fresh context id: the id is the active context
\* id, the context is the transport's, and the Target.createTarget request, if
\* issued, carries it; when that request is answered, the call returns the id
\* of the target the transport created in the fresh context.
FreshContextIsActive ==
  (call.op = "createBrowserContext" /\ call.ctx # Undefined) =>
    /\ activeBrowserContextId = call.ctx
    /\ call.ctx \in browser.contexts
    /\ call.sent[1].method = "Target.createBrowserContext"
    /\ Len(CreateTargetRequests) >= 1 =>
         /\ call.sent[2] = Request("Target.createTarget", Undefined, call.arg, call.ctx)
    /\ (call.pc = "returned" /\ call.errors = << >>) =>
         /\ Len(CreateTargetRequests) = 1
         /\ call.value = call.reported
         /\ call.value \in DOMAIN browser.targets
         /\ browser.targets[call.value] = call.ctx

C13_WitnessRejected ==
  /\ call.op = "createBrowserContext"
  /\ call.pc = "threw"
  /\ call.ctx = Undefined
  /\ call.error \in RequestErrors

\* The Target.activateTarget requests the call in flight has issued.
ActivateRequests ==
  SelectSeq(call.sent, LAMBDA r : r.method = "Target.activateTarget")

\* While switchBrowserContext has not resolved the context, it issues no
\* Target.activateTarget request and the active context id stays what it was.
NoLookupNoEffect ==
  (call'.op = "switchBrowserContext" /\ call'.ctx = Undefined) =>
    /\ activeBrowserContextId' = activeBrowserContextId
    /\ SelectSeq(call'.sent, LAMBDA r : r.method = "Target.activateTarget") = << >>

\* switchBrowserContext has resolved the context: it is the context the
\* transport reports for the target and the active context id, and the
\* Target.activateTarget request, if issued, names the same target.
SwitchedContextIsActive ==
  (call.op = "switchBrowserContext" /\ call.ctx # Undefined) =>
    /\ call.arg \in DOMAIN browser.targets
    /\ call.ctx = browser.targets[call.arg]
    /\ activeBrowserContextId = call.ctx
    /\ call.sent[1] = Request("Target.getTargetInfo", call.arg, Undefined, Undefined)
    /\ Len(ActivateRequests) <= 1
    /\ Len(call.sent) >= 2 =>
         call.sent[2] = Request("Target.activateTarget", call.arg, Undefined, Undefined)
    /\ call.pc = "returned" => Len(ActivateRequests) = 1

\* C14: switchBrowserContext(targetId) first sets the active context id to the
\* browserContextId the transport reports for targetId and only then issues
\* Target.activateTarget for that target; after a successful call the active
\* context id is the target's owning context.  If the lookup fails, the active
\* context id is unchanged and no Target.activateTarget request is issued.
C14_SwitchAdoptsThenActivates ==
  /\ []SwitchedContextIsActive
  /\ [][NoLookupNoEffect]_vars

\* A switch from the fresh context back to the default one has returned.
C14_Witness ==
  /\ call.op = "switchBrowserContext"
  /\ call.pc = "returned"
  /\ call.ctx = DefaultContext
  /\ activeBrowserContextId = DefaultContext
  /\ ContextId(1) \in browser.contexts

\* The context lookup of switchBrowserContext was rejected.
C14_WitnessLookupFails ==
  /\ call.op = "switchBrowserContext"
  /\ call.pc = "threw"
  /\ call.ctx = Undefined
  /\ call.error \in RequestErrors
  /\ activeBrowserContextId = ContextId(1)

\* C15: the matching functions never raise, whatever the target and the
\* identifier, a target whose url has no protocol, host or pathname included:
\* the outcome is then "no match", and getCriTargets(identifier) returns a
\* partition; it fails only when the list query itself fails.
C15_MatchersNeverRaise ==
  /\ criCall.pc = "threw" => criCall.error \in ListErrors
  /\ \A i \in 1..Len(criCall.list) :
       (isPage(criCall.list[i]) /\ ~IdentifierFalsy(criCall.identifier)) =>
         /\ isMatchingUrl(criCall.list[i], criCall.identifier) # Threw
         /\ isMatchingRegex(criCall.list[i], criCall.identifier) # Threw

\* C16: in waitForTargetToBeCreated(n) an error of the list query itself is
\* not retried: once the query has been rejected the call has ended with that
\* error, with no delay and no further query, whatever attempts remain.
C16_TransportErrorIsFatal ==
  waitCall.sawReject =>
    /\ waitCall.pc = "threw"
    /\ waitCall.error \in ListErrors

\* The session whose bootstrap started last.
LastStarted ==
  CHOOSE s \in Sessions :
    /\ boot[s].pc # "idle"
    /\ \A r \in Sessions : r > s => boot[r].pc = "idle"

\* C17: when two bootstraps run and both complete, under every interleaving
\* of their awaited transport calls, the process-wide state is that of the
\* session started last: the Target handle, the active target id with the
\* context of that target as active context id, and the browser-debug-url
\* handle are all its own.
C17_LastSessionWins ==
  (boot[1].pc = "done" /\ boot[2].pc = "done") =>
    /\ criTarget = Client(LastStarted)
    /\ activeTargetId \in DOMAIN browser.targets
    /\ activeBrowserContextId = browser.targets[activeTargetId]
    /\ browserDebugUrlTarget = DebugClient(LastStarted)

\* C18: every barrier promise published as 'handlerActingOnNewSession' is
\* resolved in the end: a bootstrap whose awaited transport calls have all
\* returned, by an answer or by a rejection, has resolved the barrier it
\* published, so nobody awaiting the barrier waits forever.
C18_BarrierResolvedWhenBootstrapEnds ==
  \A s \in Sessions :
    boot[s].pc \in {"done", "failed"} => boot[s].barrier = "resolved"

\* A step is the start of a bootstrap, which adopts the target id it was
\* called with, or it leaves the active target id alone.
OnlyBootstrapWritesActiveTarget ==
  IF \E s \in Sessions : boot[s].pc = "idle" /\ boot'[s].pc # "idle"
    THEN \E s \in Sessions :
           /\ boot[s].pc = "idle" /\ boot'[s].pc # "idle"
           /\ activeTargetId' = adoptTargetId(boot'[s].currentTarget)
    ELSE activeTargetId' = activeTargetId

\* When getCriTargets() without identifier returns, it reports as matching the
\* listed page that is the active target, if any, and nothing else.
MatchingIsActiveTarget ==
  (criCall.pc = "list" /\ criCall'.pc = "returned"
     /\ IdentifierFalsy(criCall'.identifier)) =>
    /\ Range(criCall'.matching) \subseteq {activeTargetId}
    /\ \A i \in 1..Len(criCall'.list) :
         (isPage(criCall'.list[i]) /\ criCall'.list[i].id = activeTargetId) =>
           criCall'.matching = << activeTargetId >>

\* C19: the active target id is written only by the session bootstrap; the
\* context manager, target discovery and the registry leave it unchanged, so
\* after any sequence of their calls getCriTargets() without identifier still
\* reports as matching only the target the session was bootstrapped with, and
\* nothing when that target is not listed.
C19_ActiveTargetWrittenOnlyByBootstrap ==
  [][OnlyBootstrapWritesActiveTarget /\ MatchingIsActiveTarget]_vars

\* After createBrowserContext made a second page in a fresh context,
\* getCriTargets() still reports the bootstrap's page as the matching one.
C19_Witness ==
  /\ criCall.pc = "returned"
  /\ IdentifierFalsy(criCall.identifier)
  /\ criCall.matching = << TargetId(1) >>
  /\ criCall.others = << TargetId(2) >>
  /\ TargetId(2) \in DOMAIN browser.targets
  /\ browser.targets[TargetId(2)] = ContextId(1)
  /\ activeBrowserContextId = ContextId(1)
  /\ activeTargetId = TargetId(1)

\* The steps that assign the active context id: a bootstrap whose context
\* lookup answers, createBrowserContext when the transport answers with the
\* fresh context, switchBrowserContext when its context lookup answers.
AssignsActiveContext ==
  \/ \E s \in Sessions : boot[s].pc = "getTargetInfo" /\ boot'[s].pc = "connect"
  \/ call.pc = "createBrowserContext" /\ call'.ctx # Undefined
  \/ call.pc = "switchGetTargetInfo" /\ call'.ctx # Undefined

\* Every step that is none of those leaves the active context id unchanged,
\* the steps of closeBrowserContext and createTarget among them.
OnlyThreeWriteActiveContext ==
  /\ ~AssignsActiveContext => activeBrowserContextId' = activeBrowserContextId
  /\ call'.op \in {"closeBrowserContext", "createTarget"} =>
       activeBrowserContextId' = activeBrowserContextId

\* After closeBrowserContext returned true the active context id names the
\* disposed context; after createTarget sent its fallback request the active
\* context id is the context id its first request carried.
ActiveContextKeptStale ==
  /\ (call.op = "closeBrowserContext" /\ call.pc = "returned" /\ call.value = True) =>
       /\ activeBrowserContextId = call.ctx
       /\ call.ctx \notin browser.contexts
  /\ (call.op = "createTarget" /\ Len(CreateTargetRequests) = 2) =>
       /\ activeBrowserContextId = CreateTargetRequests[1].browserContextId
       /\ CreateTargetRequests[2].browserContextId = Undefined

\* C20: closeBrowserContext and createTarget never change the active context
\* id: after closeBrowserContext returns true it still names the disposed
\* context, after the context-less fallback of createTarget it still names
\* the context the transport rejected; only session bootstrap,
\* createBrowserContext and switchBrowserContext assign it.
C20_CloseAndCreateTargetKeepActiveContext ==
  /\ []ActiveContextKeptStale
  /\ [][OnlyThreeWriteActiveContext]_vars

\* The active context was disposed and is still the active one.
C20_Witness ==
  /\ call.op = "closeBrowserContext"
  /\ call.pc = "returned"
  /\ call.value = True
  /\ activeBrowserContextId = ContextId(1)
  /\ ContextId(1) \notin browser.contexts

\* createTarget fell back after a rejection that named the active context.
C20_WitnessFallback ==
  /\ call.op = "createTarget"
  /\ call.pc = "returned"
  /\ Len(CreateTargetRequests) = 2
  /\ activeBrowserContextId = ContextId(1)
  /\ CreateTargetRequests[1].browserContextId = ContextId(1)

====
